---- MODULE Spec2Model ----
(***************************************************************************)
(* HabitVault backend (src/backend/app.py, src/backend/models.py): the     *)
(* habit schedule evaluator, the completion ledger, the streak calculator  *)
(* and the perfect-day aggregator, as a state machine over the database    *)
(* rows and the server's calendar date.                                    *)
(*                                                                         *)
(* Dates are day numbers counted from 2025-05-01 (day 0, a Thursday).  An  *)
(* ISO date string is the triple <<year, month, day>>.  A target_days      *)
(* string is the sequence of its comma-separated parts.  A timestamp is    *)
(* "utcnow" when the server read it from its clock, else the caller's.    *)
(***************************************************************************)
EXTENDS Integers, Sequences, FiniteSets, TLC

VARIABLES
    server_today,        \* date.today() of the server process
    habits,              \* table habits: id -> row
    next_habit_id,       \* the autoincrement primary key of table habits
    completions,         \* table habit_completions: a set of rows
    perfect_days_dates,  \* users.perfect_days_dates: user id -> JSON array
    perfect_days_count,  \* users.perfect_days_count: user id -> integer
    response,            \* the outcome of the last request served
    twin,                \* a second run of the same requests under another clock
    sessions,            \* db.session of each request being served step by step
    sweep,               \* db.session of a startup sweep running beside requests
    call                 \* a read-only request or a function call and what it returns

vars == <<server_today, habits, next_habit_id, completions,
          perfect_days_dates, perfect_days_count, response, twin,
          sessions, sweep, call>>

----------------------------------------------------------------------------
(* Bounds of the model *)

MaxDay == 2
MaxStreak == 3
MaxWeekDay == 6
MaxCount == 210

Dates == 0..MaxDay
Users == {1, 2}

(* 2025-05-01, the first day of the model, is a Thursday: weekday() = 3 *)
EpochWeekday == 3

None == 0 - 1

----------------------------------------------------------------------------
(* Calendar dates and their ISO strings *)

weekday(d) == (d + EpochWeekday) % 7

(* April has 30 days: the day before 2025-05-01 is 2025-04-30 *)
isoformat(d) == IF d >= 0 THEN <<2025, 5, d + 1>> ELSE <<2025, 4, d + 31>>

(* datetime.strptime(s, '%Y-%m-%d').date(): a date, or None for ValueError *)
strptime(s) ==
    IF /\ Len(s) = 3
       /\ s[1] = 2025
       /\ s[2] = 5
       /\ s[3] >= 1
       /\ s[3] <= 31
    THEN s[3] - 1
    ELSE None

(* The date a complete/uncomplete request carries *)
request_date(local_date_str, today) ==
    IF local_date_str # <<>>
    THEN IF strptime(local_date_str) # None
         THEN strptime(local_date_str)
         ELSE today
    ELSE today

----------------------------------------------------------------------------
(* Schedule evaluator *)

weekday_names ==
    <<"monday", "tuesday", "wednesday", "thursday", "friday", "saturday", "sunday">>

(* str.lower() and str.strip() on the parts a target_days string is made of *)
lower(s) ==
    CASE s = "Thursday" -> "thursday"
      [] s = "SATURDAY" -> "saturday"
      [] s = " Friday" -> " friday"
      [] s = "Every_Day" -> "every_day"
      [] OTHER -> s

strip(s) ==
    CASE s = " saturday" -> "saturday"
      [] s = " friday" -> "friday"
      [] s = " Friday" -> "Friday"
      [] s = " " -> ""
      [] OTHER -> s

(* is_habit_due_on_date comparing the names as they are written *)
is_habit_due_on_date_case_sensitive(habit, check_date) ==
    IF check_date < habit.start_date
    THEN FALSE
    ELSE LET day_of_week == weekday(check_date)
         IN  IF habit.target_days = <<"every_day">>
             THEN TRUE
             ELSE IF habit.target_days = <<"weekdays">>
             THEN day_of_week < 5
             ELSE LET today_name == weekday_names[day_of_week + 1]
                  IN  IF Len(habit.target_days) > 1
                      THEN today_name \in
                             { strip(habit.target_days[i]) :
                                 i \in DOMAIN habit.target_days }
                      ELSE habit.target_days[1] = today_name
(* app.py is_habit_due_on_date(habit, check_date) *)
is_habit_due_on_date(habit, check_date) ==
    IF check_date < habit.start_date
    THEN FALSE
    ELSE LET day_of_week == weekday(check_date)
         IN  IF habit.target_days = <<"every_day">>
             THEN TRUE
             ELSE IF habit.target_days = <<"weekdays">>
             THEN day_of_week < 5
             ELSE LET today_name == weekday_names[day_of_week + 1]
                  IN  IF Len(habit.target_days) > 1
                      THEN today_name \in
                             { lower(strip(habit.target_days[i])) :
                                 i \in DOMAIN habit.target_days }
                      ELSE lower(habit.target_days[1]) = today_name

(* Habit.is_due_today without the comparison with start_date *)
is_due_today_ignoring_start_date(habit, check_date, today_of_server) ==
    LET today == IF check_date # None THEN check_date ELSE today_of_server
        wd == weekday(today)
    IN  IF habit.target_days = <<"every_day">>
        THEN TRUE
        ELSE IF habit.target_days = <<"weekdays">>
        THEN wd < 5
        ELSE IF Len(habit.target_days) > 1
        THEN weekday_names[wd + 1] \in
               { lower(strip(habit.target_days[i])) :
                   i \in DOMAIN habit.target_days }
        ELSE lower(habit.target_days[1]) = weekday_names[wd + 1]

(* models.py Habit.is_due_today(check_date); check_date = None is date.today() *)
is_due_today(habit, check_date, today_of_server) ==
    LET today == IF check_date # None THEN check_date ELSE today_of_server
    IN  IF today < habit.start_date
        THEN FALSE
        ELSE LET wd == weekday(today)
             IN  IF habit.target_days = <<"every_day">>
                 THEN TRUE
                 ELSE IF habit.target_days = <<"weekdays">>
                 THEN wd < 5
                 ELSE IF Len(habit.target_days) > 1
                 THEN weekday_names[wd + 1] \in
                        { lower(strip(habit.target_days[i])) :
                            i \in DOMAIN habit.target_days }
                 ELSE lower(habit.target_days[1]) = weekday_names[wd + 1]

----------------------------------------------------------------------------
(* Completion ledger *)

(* HabitCompletion.query.filter_by(habit_id=, completion_date=).first() *)
has_completion(rows, habit_id, d) ==
    \E r \in rows : r.habit_id = habit_id /\ r.completion_date = d

----------------------------------------------------------------------------
(* Streak calculator *)

(* The while condition with the bound one day too early *)
scan_continues_past_start(habit, previous_date) ==
    previous_date >= habit.start_date - 1

(* while previous_date >= habit_start *)
scan_continues(habit, previous_date) ==
    previous_date >= habit.start_date
(* The while loop of calculate_current_streak: the base streak from the
   immediate previous day on which the habit was due *)
RECURSIVE base_streak_from(_, _, _)
base_streak_from(habit, rows, previous_date) ==
    IF scan_continues(habit, previous_date)
    THEN IF is_habit_due_on_date(habit, previous_date)
         THEN IF has_completion(rows, habit.id, previous_date)
              THEN habit.current_streak
              ELSE 0
         ELSE base_streak_from(habit, rows, previous_date - 1)
    ELSE 0

(* calculate_current_streak adding today without looking for today's
   completion *)
calculate_current_streak_unchecked(habit, rows, current_date) ==
    LET base_streak == base_streak_from(habit, rows, current_date - 1)
    IN  IF is_habit_due_on_date(habit, current_date)
        THEN base_streak + 1
        ELSE base_streak

(* app.py calculate_current_streak(habit), current_date = date.today() *)
calculate_current_streak(habit, rows, current_date) ==
    LET base_streak == base_streak_from(habit, rows, current_date - 1)
    IN  IF is_habit_due_on_date(habit, current_date)
        THEN IF has_completion(rows, habit.id, current_date)
             THEN base_streak + 1
             ELSE 0
        ELSE base_streak

----------------------------------------------------------------------------
(* The database as one value: what a request reads and what it commits *)

DB ==
    [habits |-> habits,
     next_habit_id |-> next_habit_id,
     completions |-> completions,
     perfect_days_dates |-> perfect_days_dates,
     perfect_days_count |-> perfect_days_count]

EmptyDB ==
    [habits |-> <<>>,
     next_habit_id |-> 1,
     completions |-> {},
     perfect_days_dates |-> [u \in Users |-> <<>>],
     perfect_days_count |-> [u \in Users |-> 0]]

(* Habit.__init__ *)
NewHabit(id, user_id, target_days, start_date) ==
    [id |-> id,
     user_id |-> user_id,
     target_days |-> target_days,
     start_date |-> start_date,
     current_streak |-> 0,
     longest_streak |-> 0]

(* HabitCompletion.__init__ with completed_at set by the caller *)
NewCompletion(habit_id, completion_date, completed_at) ==
    [habit_id |-> habit_id,
     completion_date |-> completion_date,
     completed_at |-> completed_at]

(* Habit.query.filter_by(id=habit_id, user_id=current_user_id).first() *)
habit_of_user(db, habit_id, user_id) ==
    habit_id \in DOMAIN db.habits /\ db.habits[habit_id].user_id = user_id

----------------------------------------------------------------------------
(* User.perfect_days_dates: a JSON array of date strings in a text column *)

date_str_before(a, b) ==
    \/ a[1] < b[1]
    \/ a[1] = b[1] /\ a[2] < b[2]
    \/ a[1] = b[1] /\ a[2] = b[2] /\ a[3] < b[3]

(* json.dumps(list(perfect_days)): the array of the set's members *)
RECURSIVE json_dumps(_)
json_dumps(S) ==
    IF S = {}
    THEN <<>>
    ELSE LET first == CHOOSE a \in S : \A b \in S \ {a} : date_str_before(a, b)
         IN  <<first>> \o json_dumps(S \ {first})

(* User.get_perfect_days_set: set(json.loads(text)), set() for '' *)
get_perfect_days_set(db, user_id) ==
    { db.perfect_days_dates[user_id][i] : i \in DOMAIN db.perfect_days_dates[user_id] }

(* User.has_perfect_day *)
has_perfect_day(db, user_id, date_str) ==
    date_str \in get_perfect_days_set(db, user_id)

(* User.add_perfect_day counting one more day on every call *)
add_perfect_day_incrementing(db, user_id, date_str) ==
    LET perfect_days == get_perfect_days_set(db, user_id) \cup {date_str}
    IN  [db EXCEPT !.perfect_days_dates[user_id] = json_dumps(perfect_days),
                   !.perfect_days_count[user_id] = @ + 1]

(* User.add_perfect_day *)
add_perfect_day(db, user_id, date_str) ==
    LET perfect_days == get_perfect_days_set(db, user_id) \cup {date_str}
    IN  [db EXCEPT !.perfect_days_dates[user_id] = json_dumps(perfect_days),
                   !.perfect_days_count[user_id] = Cardinality(perfect_days)]

(* User.remove_perfect_day *)
remove_perfect_day(db, user_id, date_str) ==
    LET perfect_days == get_perfect_days_set(db, user_id) \ {date_str}
    IN  [db EXCEPT !.perfect_days_dates[user_id] = json_dumps(perfect_days),
                   !.perfect_days_count[user_id] = Cardinality(perfect_days)]

----------------------------------------------------------------------------
(* Perfect-day aggregator *)

(* app.py update_perfect_day_status(user_id, today); h.is_due_today() is
   called without a date, so it reads the server's date *)
habits_due_today(db, user_id, today_of_server) ==
    { h \in DOMAIN db.habits :
        /\ db.habits[h].user_id = user_id
        /\ is_due_today(db.habits[h], None, today_of_server) }

(* update_perfect_day_status adding the date while the due habits are all
   completed, whether it is there or not, and counting it again *)
update_perfect_day_status_recounting(db, user_id, today, today_of_server) ==
    LET due == habits_due_today(db, user_id, today_of_server)
        all_completed == \A h \in due : has_completion(db.completions, h, today)
        today_str == isoformat(today)
    IN  IF all_completed /\ Cardinality(due) > 0
        THEN add_perfect_day_incrementing(db, user_id, today_str)
        ELSE IF has_perfect_day(db, user_id, today_str)
             THEN remove_perfect_day(db, user_id, today_str)
             ELSE db

update_perfect_day_status(db, user_id, today, today_of_server) ==
    LET due == habits_due_today(db, user_id, today_of_server)
        all_completed == \A h \in due : has_completion(db.completions, h, today)
        today_str == isoformat(today)
    IN  IF all_completed /\ Cardinality(due) > 0
        THEN IF ~ has_perfect_day(db, user_id, today_str)
             THEN add_perfect_day(db, user_id, today_str)
             ELSE db
        ELSE IF has_perfect_day(db, user_id, today_str)
             THEN remove_perfect_day(db, user_id, today_str)
             ELSE db

----------------------------------------------------------------------------
(* Requests.  A handler maps the database it reads to the database it
   commits and the outcome it answers with. *)

Outcome(op, status, user_id, habit_id, d, updated) ==
    [op |-> op, status |-> status, user_id |-> user_id,
     habit_id |-> habit_id, date |-> d, updated |-> updated]

(* An error answer is {'error': message} and a status code *)
Failure(op, status) == Outcome(op, status, None, None, None, {})

(* datetime.utcnow(): an instant read from the system clock *)
utcnow == "utcnow"

(* datetime.fromisoformat(local_timestamp.replace('Z', '+00:00')) *)
fromisoformat(local_timestamp) ==
    CASE local_timestamp = "2025-05-01T08:00:00Z" -> "2025-05-01 08:00:00+00:00"
      [] local_timestamp = "2025-05-01T08:00:00" -> "2025-05-01 08:00:00"
      [] OTHER -> "ValueError"

valid_target_days == {<<"every_day">>, <<"weekdays">>, <<"custom">>}

(* POST /api/habits *)
create_habit(db, today_of_server, current_user_id, target_days, start_date_str) ==
    IF target_days = <<>> \/ target_days = <<"">> \/ start_date_str = <<>>
    THEN [db |-> db, out |-> Failure("create", 400)]
    ELSE IF target_days \notin valid_target_days /\ ~ (Len(target_days) > 1)
    THEN [db |-> db, out |-> Failure("create", 400)]
    ELSE IF strptime(start_date_str) = None
    THEN [db |-> db, out |-> Failure("create", 400)]
    ELSE LET id == db.next_habit_id
             habit == NewHabit(id, current_user_id, target_days, strptime(start_date_str))
             added == [db EXCEPT !.habits = (id :> habit) @@ db.habits,
                                 !.next_habit_id = id + 1]
             today == today_of_server
         IN  [db |-> update_perfect_day_status(added, current_user_id, today,
                                               today_of_server),
              out |-> Outcome("create", 201, current_user_id, id, today, {})]

(* PUT /api/habits/<habit_id>; <<>> is a field the body does not carry *)
update_habit(db, current_user_id, habit_id, target_days, start_date_str) ==
    IF ~ habit_of_user(db, habit_id, current_user_id)
    THEN [db |-> db, out |-> Failure("update", 404)]
    ELSE IF target_days = <<>> /\ start_date_str = <<>>
    THEN [db |-> db, out |-> Failure("update", 400)]
    ELSE IF target_days # <<>> /\ target_days \notin valid_target_days
    THEN [db |-> db, out |-> Failure("update", 400)]
    ELSE IF start_date_str # <<>> /\ strptime(start_date_str) = None
    THEN [db |-> db, out |-> Failure("update", 400)]
    ELSE LET habit == db.habits[habit_id]
             updated ==
                 [habit EXCEPT
                    !.target_days =
                        IF target_days # <<>> THEN target_days ELSE @,
                    !.start_date =
                        IF start_date_str # <<>> THEN strptime(start_date_str) ELSE @]
         IN  [db |-> [db EXCEPT !.habits[habit_id] = updated],
              out |-> Outcome("update", 200, current_user_id, habit_id, None, {})]

(* delete_habit looking the habit up by its id alone *)
delete_habit_any_owner(db, current_user_id, habit_id) ==
    IF habit_id \notin DOMAIN db.habits
    THEN [db |-> db, out |-> Failure("delete", 404)]
    ELSE [db |-> [db EXCEPT
                    !.habits = [h \in DOMAIN db.habits \ {habit_id} |-> db.habits[h]],
                    !.completions = { r \in db.completions : r.habit_id # habit_id }],
          out |-> Outcome("delete", 200, current_user_id, habit_id, None, {})]

(* delete_habit without the cascade to the completions *)
delete_habit_keeping_completions(db, current_user_id, habit_id) ==
    IF ~ habit_of_user(db, habit_id, current_user_id)
    THEN [db |-> db, out |-> Failure("delete", 404)]
    ELSE [db |-> [db EXCEPT
                    !.habits = [h \in DOMAIN db.habits \ {habit_id} |-> db.habits[h]]],
          out |-> Outcome("delete", 200, current_user_id, habit_id, None, {})]
(* DELETE /api/habits/<habit_id>; the completions go with the habit
   (cascade='all, delete-orphan') *)
delete_habit(db, current_user_id, habit_id) ==
    IF ~ habit_of_user(db, habit_id, current_user_id)
    THEN [db |-> db, out |-> Failure("delete", 404)]
    ELSE [db |-> [db EXCEPT
                    !.habits = [h \in DOMAIN db.habits \ {habit_id} |-> db.habits[h]],
                    !.completions = { r \in db.completions : r.habit_id # habit_id }],
          out |-> Outcome("delete", 200, current_user_id, habit_id, None, {})]

(* POST /api/habits/<habit_id>/complete *)
complete_habit(db, today_of_server, current_user_id, habit_id, local_date_str, local_timestamp) ==
    LET today == request_date(local_date_str, today_of_server)
    IN  IF ~ habit_of_user(db, habit_id, current_user_id)
        THEN [db |-> db,
              out |-> Failure("complete", 404)]
        ELSE IF has_completion(db.completions, habit_id, today)
        THEN [db |-> db,
              out |-> Failure("complete", 409)]
        ELSE LET completion_time ==
                     IF local_timestamp # ""
                     THEN fromisoformat(local_timestamp)
                     ELSE utcnow
                 rows == db.completions \cup
                           {NewCompletion(habit_id, today, completion_time)}
                 current == calculate_current_streak(db.habits[habit_id], rows,
                                                     today_of_server)
                 longest == IF current > db.habits[habit_id].longest_streak
                            THEN current
                            ELSE db.habits[habit_id].longest_streak
                 stored == [db EXCEPT !.completions = rows,
                                      !.habits[habit_id].current_streak = current,
                                      !.habits[habit_id].longest_streak = longest]
             IN  [db |-> update_perfect_day_status(stored, current_user_id, today,
                                                   today_of_server),
                  out |-> Outcome("complete", 200, current_user_id, habit_id, today, {})]

(* uncomplete_habit deleting every completion of the habit *)
uncomplete_habit_clearing_ledger(db, today_of_server, current_user_id, habit_id, local_date_str) ==
    LET today == request_date(local_date_str, today_of_server)
    IN  IF ~ habit_of_user(db, habit_id, current_user_id)
        THEN [db |-> db,
              out |-> Failure("uncomplete", 404)]
        ELSE IF ~ has_completion(db.completions, habit_id, today)
        THEN [db |-> db,
              out |-> Failure("uncomplete", 404)]
        ELSE LET rows == { r \in db.completions : r.habit_id # habit_id }
                 current == calculate_current_streak(db.habits[habit_id], rows,
                                                     today_of_server)
                 stored == [db EXCEPT !.completions = rows,
                                      !.habits[habit_id].current_streak = current]
             IN  [db |-> update_perfect_day_status(stored, current_user_id, today,
                                                   today_of_server),
                  out |-> Outcome("uncomplete", 200, current_user_id, habit_id, today, {})]

(* uncomplete_habit storing the recalculated streak as the longest too *)
uncomplete_habit_resetting_longest(db, today_of_server, current_user_id, habit_id, local_date_str) ==
    LET today == request_date(local_date_str, today_of_server)
    IN  IF ~ habit_of_user(db, habit_id, current_user_id)
        THEN [db |-> db,
              out |-> Failure("uncomplete", 404)]
        ELSE IF ~ has_completion(db.completions, habit_id, today)
        THEN [db |-> db,
              out |-> Failure("uncomplete", 404)]
        ELSE LET rows == { r \in db.completions :
                             ~ (r.habit_id = habit_id /\ r.completion_date = today) }
                 current == calculate_current_streak(db.habits[habit_id], rows,
                                                     today_of_server)
                 stored == [db EXCEPT !.completions = rows,
                                      !.habits[habit_id].current_streak = current,
                                      !.habits[habit_id].longest_streak = current]
             IN  [db |-> update_perfect_day_status(stored, current_user_id, today,
                                                   today_of_server),
                  out |-> Outcome("uncomplete", 200, current_user_id, habit_id, today, {})]

(* POST /api/habits/<habit_id>/uncomplete *)
uncomplete_habit(db, today_of_server, current_user_id, habit_id, local_date_str) ==
    LET today == request_date(local_date_str, today_of_server)
    IN  IF ~ habit_of_user(db, habit_id, current_user_id)
        THEN [db |-> db,
              out |-> Failure("uncomplete", 404)]
        ELSE IF ~ has_completion(db.completions, habit_id, today)
        THEN [db |-> db,
              out |-> Failure("uncomplete", 404)]
        ELSE LET rows == { r \in db.completions :
                             ~ (r.habit_id = habit_id /\ r.completion_date = today) }
                 current == calculate_current_streak(db.habits[habit_id], rows,
                                                     today_of_server)
                 stored == [db EXCEPT !.completions = rows,
                                      !.habits[habit_id].current_streak = current]
             IN  [db |-> update_perfect_day_status(stored, current_user_id, today,
                                                   today_of_server),
                  out |-> Outcome("uncomplete", 200, current_user_id, habit_id, today, {})]

(* recalculate_all_streaks(), run by create_app() when the application starts *)
recalculate_all_streaks(db, today_of_server) ==
    LET new_streak(h) == calculate_current_streak(db.habits[h], db.completions,
                                                  today_of_server)
    IN  [db |-> [db EXCEPT !.habits =
                    [h \in DOMAIN db.habits |->
                        [db.habits[h] EXCEPT !.current_streak = new_streak(h)]]],
         out |-> Outcome("startup", 0, None, None, today_of_server,
                         { h \in DOMAIN db.habits :
                             db.habits[h].current_streak # new_streak(h) })]

(* The range a history request without dates covers: timedelta(days=30) *)
HistoryDays == 30

(* get_habit_history counting today among the days that can be missed *)
get_habit_history_missing_today(db, today_of_server, current_user_id, habit_id, start_date_str, end_date_str) ==
    IF ~ habit_of_user(db, habit_id, current_user_id)
    THEN [status |-> 404, history |-> <<>>, total_days |-> None, completed_days |-> None]
    ELSE IF /\ start_date_str # <<>>
            /\ end_date_str # <<>>
            /\ (strptime(start_date_str) = None \/ strptime(end_date_str) = None)
    THEN [status |-> 400, history |-> <<>>, total_days |-> None, completed_days |-> None]
    ELSE LET default == start_date_str = <<>> \/ end_date_str = <<>>
             end_date == IF default THEN today_of_server ELSE strptime(end_date_str)
             start_date == IF default
                           THEN end_date - HistoryDays
                           ELSE strptime(start_date_str)
             completed_dates ==
                 { r.completion_date :
                     r \in { x \in db.completions :
                               /\ x.habit_id = habit_id
                               /\ x.completion_date >= start_date
                               /\ x.completion_date <= end_date } }
             is_due == TRUE
             status_of(current_date) ==
                 IF current_date \in completed_dates
                 THEN "completed"
                 ELSE IF current_date <= today_of_server
                 THEN IF is_due THEN "missed" ELSE "not_logged"
                 ELSE "not_logged"
             history ==
                 [i \in 1..(end_date - start_date + 1) |->
                    [date |-> isoformat(start_date + i - 1),
                     status |-> status_of(start_date + i - 1)]]
         IN  [status |-> 200,
              history |-> history,
              total_days |-> Len(history),
              completed_days |->
                  Cardinality({ i \in DOMAIN history : history[i].status = "completed" })]
(* GET /api/habits/<habit_id>/history; <<>> is a parameter the query string
   does not carry *)
get_habit_history(db, today_of_server, current_user_id, habit_id, start_date_str, end_date_str) ==
    IF ~ habit_of_user(db, habit_id, current_user_id)
    THEN [status |-> 404, history |-> <<>>, total_days |-> None, completed_days |-> None]
    ELSE IF /\ start_date_str # <<>>
            /\ end_date_str # <<>>
            /\ (strptime(start_date_str) = None \/ strptime(end_date_str) = None)
    THEN [status |-> 400, history |-> <<>>, total_days |-> None, completed_days |-> None]
    ELSE LET default == start_date_str = <<>> \/ end_date_str = <<>>
             end_date == IF default THEN today_of_server ELSE strptime(end_date_str)
             start_date == IF default
                           THEN end_date - HistoryDays
                           ELSE strptime(start_date_str)
             completed_dates ==
                 { r.completion_date :
                     r \in { x \in db.completions :
                               /\ x.habit_id = habit_id
                               /\ x.completion_date >= start_date
                               /\ x.completion_date <= end_date } }
             is_due == TRUE
             status_of(current_date) ==
                 IF current_date \in completed_dates
                 THEN "completed"
                 ELSE IF current_date < today_of_server
                 THEN IF is_due THEN "missed" ELSE "not_logged"
                 ELSE "not_logged"
             history ==
                 [i \in 1..(end_date - start_date + 1) |->
                    [date |-> isoformat(start_date + i - 1),
                     status |-> status_of(start_date + i - 1)]]
         IN  [status |-> 200,
              history |-> history,
              total_days |-> Len(history),
              completed_days |->
                  Cardinality({ i \in DOMAIN history : history[i].status = "completed" })]

----------------------------------------------------------------------------
(* Milestones *)

(* User.get_next_milestone with //, the floor division, in the percentage *)
get_next_milestone_floor_division(user) ==
    LET current_count == user.perfect_days_count
        next_milestone ==
            IF current_count < 50 THEN 50
            ELSE IF current_count < 100 THEN 100
            ELSE IF current_count < 150 THEN 150
            ELSE ((current_count \div 50) + 1) * 50
    IN  [next_milestone |-> next_milestone,
         current_count |-> current_count,
         progress_percentage |-> <<(current_count \div next_milestone) * 100, 1>>,
         days_remaining |-> next_milestone - current_count]

(* models.py User.get_next_milestone(); progress_percentage, the float
   (current_count / next_milestone) * 100, is kept as the fraction
   <<numerator, denominator>> *)
get_next_milestone(user) ==
    LET current_count == user.perfect_days_count
        next_milestone ==
            IF current_count < 50 THEN 50
            ELSE IF current_count < 100 THEN 100
            ELSE IF current_count < 150 THEN 150
            ELSE ((current_count \div 50) + 1) * 50
    IN  [next_milestone |-> next_milestone,
         current_count |-> current_count,
         progress_percentage |-> <<current_count * 100, next_milestone>>,
         days_remaining |-> next_milestone - current_count]

----------------------------------------------------------------------------
(* What the environment sends *)

DateStrings == { isoformat(d) : d \in Dates }
LocalDateInputs == DateStrings \cup {<<>>, <<2025, 13, 1>>}
StartDateInputs == {isoformat(0), isoformat(1), <<2025, 13, 1>>}
CreateTargetDays ==
    {<<"every_day">>, <<"weekdays">>, <<"Thursday", " saturday">>, <<"thursday">>}
UpdateTargetDays == {<<>>, <<"every_day">>, <<"custom">>, <<"Every_Day">>}
UpdateStartDates == {<<>>, isoformat(1)}
LocalTimestampInputs == {""}
TwinTargetDays == {<<"every_day">>, <<"weekdays">>}

----------------------------------------------------------------------------
(* The state machine *)

Init ==
    /\ server_today = 0
    /\ habits = EmptyDB.habits
    /\ next_habit_id = EmptyDB.next_habit_id
    /\ completions = EmptyDB.completions
    /\ perfect_days_dates = EmptyDB.perfect_days_dates
    /\ perfect_days_count = EmptyDB.perfect_days_count
    /\ response = Outcome("boot", 0, None, None, None, {})
    /\ twin = <<>>
    /\ sessions = <<>>
    /\ sweep = <<>>
    /\ call = <<>>

(* db.session.commit() *)
Commit(db) ==
    /\ habits' = db.habits
    /\ next_habit_id' = db.next_habit_id
    /\ completions' = db.completions
    /\ perfect_days_dates' = db.perfect_days_dates
    /\ perfect_days_count' = db.perfect_days_count

StreaksWithinBound(db) ==
    \A h \in DOMAIN db.habits : db.habits[h].current_streak <= MaxStreak

(* A request is served: its transaction commits and response keeps the
   answer of the last request that committed one (an error answer commits
   nothing and leaves no trace) *)
Answer(r) ==
    /\ StreaksWithinBound(r.db)
    /\ Commit(r.db)
    /\ response' = IF r.out.status >= 400 THEN response ELSE r.out
    /\ UNCHANGED server_today

Serve(r) ==
    /\ Answer(r)
    /\ UNCHANGED <<twin, sessions, sweep, call>>

CreateHabit(ids, creators, target_days_inputs) ==
    \E u \in creators, td \in target_days_inputs, sd \in StartDateInputs :
        /\ next_habit_id \in ids
        /\ Serve(create_habit(DB, server_today, u, td, sd))

UpdateHabit(ids) ==
    \E u \in Users, h \in ids, td \in UpdateTargetDays, sd \in UpdateStartDates :
        Serve(update_habit(DB, u, h, td, sd))

DeleteHabit(ids) ==
    \E u \in Users, h \in ids :
        Serve(delete_habit(DB, u, h))

CompleteHabit(ids, local_dates) ==
    \E u \in Users, h \in ids, ld \in local_dates, ts \in LocalTimestampInputs :
        Serve(complete_habit(DB, server_today, u, h, ld, ts))

UncompleteHabit(ids, local_dates) ==
    \E u \in Users, h \in ids, ld \in local_dates :
        Serve(uncomplete_habit(DB, server_today, u, h, ld))

(* create_app(): the application (re)starts *)
Startup ==
    Serve(recalculate_all_streaks(DB, server_today))

(* The server's date moves to the next day *)
Midnight ==
    /\ server_today < MaxDay
    /\ server_today' = server_today + 1
    /\ UNCHANGED <<habits, next_habit_id, completions,
                   perfect_days_dates, perfect_days_count, response, twin,
                   sessions, sweep, call>>

(* One habit, every request and every schedule: the streak calculator *)
StreakHabitIds == {1}

Next ==
    \/ CreateHabit(StreakHabitIds, Users, CreateTargetDays)
    \/ UpdateHabit(StreakHabitIds)
    \/ DeleteHabit(StreakHabitIds)
    \/ CompleteHabit(StreakHabitIds, LocalDateInputs)
    \/ UncompleteHabit(StreakHabitIds, LocalDateInputs)
    \/ Startup
    \/ Midnight

Spec == Init /\ [][Next]_vars

(* The same habit when no request carries a local_date: every completion
   is made, and every uncompletion undone, on the server's own day *)
NoLocalDate == {<<>>}

NextOwnDay ==
    \/ CreateHabit(StreakHabitIds, Users, CreateTargetDays)
    \/ CompleteHabit(StreakHabitIds, NoLocalDate)
    \/ UncompleteHabit(StreakHabitIds, NoLocalDate)
    \/ Midnight

SpecOwnDay == Init /\ [][NextOwnDay]_vars

(* Two runs of the application that receive the same requests, each
   complete and uncomplete request carrying a local_date, while the date
   of each server moves on its own.  The variables hold the first run and
   twin holds the database and the server date of the second. *)
InitTwin ==
    /\ server_today = 0
    /\ habits = EmptyDB.habits
    /\ next_habit_id = EmptyDB.next_habit_id
    /\ completions = EmptyDB.completions
    /\ perfect_days_dates = EmptyDB.perfect_days_dates
    /\ perfect_days_count = EmptyDB.perfect_days_count
    /\ response = Outcome("boot", 0, None, None, None, {})
    /\ twin \in [server_today : Dates, db : {EmptyDB}]
    /\ sessions = <<>>
    /\ sweep = <<>>
    /\ call = <<>>

ServeBoth(r, r_twin) ==
    /\ Answer(r)
    /\ StreaksWithinBound(r_twin.db)
    /\ twin' = [twin EXCEPT !.db = r_twin.db]
    /\ UNCHANGED <<sessions, sweep, call>>

TwinCreateHabit ==
    \E td \in TwinTargetDays, sd \in StartDateInputs :
        /\ next_habit_id \in StreakHabitIds
        /\ ServeBoth(create_habit(DB, server_today, 1, td, sd),
                     create_habit(twin.db, twin.server_today, 1, td, sd))

TwinCompleteHabit ==
    \E u \in Users, h \in StreakHabitIds, ld \in DateStrings :
        ServeBoth(complete_habit(DB, server_today, u, h, ld, ""),
                  complete_habit(twin.db, twin.server_today, u, h, ld, ""))

TwinUncompleteHabit ==
    \E u \in Users, h \in StreakHabitIds, ld \in DateStrings :
        ServeBoth(uncomplete_habit(DB, server_today, u, h, ld),
                  uncomplete_habit(twin.db, twin.server_today, u, h, ld))

MidnightOfFirst ==
    /\ Midnight

MidnightOfTwin ==
    /\ twin.server_today < MaxDay
    /\ twin' = [twin EXCEPT !.server_today = @ + 1]
    /\ UNCHANGED <<server_today, habits, next_habit_id, completions,
                   perfect_days_dates, perfect_days_count, response,
                   sessions, sweep, call>>

NextTwin ==
    \/ TwinCreateHabit
    \/ TwinCompleteHabit
    \/ TwinUncompleteHabit
    \/ MidnightOfFirst
    \/ MidnightOfTwin

SpecTwin == InitTwin /\ [][NextTwin]_vars

(* Two habits of one user, created, completed, uncompleted and deleted:
   the perfect-day aggregator *)
PerfectDayHabitIds == {1, 2}
PerfectDayTargetDays == {<<"every_day">>, <<"weekdays">>, <<"thursday">>}

NextPerfectDay ==
    \/ CreateHabit(PerfectDayHabitIds, {1}, PerfectDayTargetDays)
    \/ DeleteHabit(PerfectDayHabitIds)
    \/ CompleteHabit(PerfectDayHabitIds, LocalDateInputs)
    \/ UncompleteHabit(PerfectDayHabitIds, LocalDateInputs)
    \/ Midnight

SpecPerfectDay == Init /\ [][NextPerfectDay]_vars

(* Two habits, each created by either user, and every request of both
   users on both of them, for the server's day *)
UsersHabitIds == {1, 2}
UsersTargetDays == {<<"every_day">>}
UsersLocalDates == {isoformat(0)}

NextUsers ==
    \/ CreateHabit(UsersHabitIds, Users, UsersTargetDays)
    \/ UpdateHabit(UsersHabitIds)
    \/ DeleteHabit(UsersHabitIds)
    \/ CompleteHabit(UsersHabitIds, UsersLocalDates)
    \/ UncompleteHabit(UsersHabitIds, UsersLocalDates)

SpecUsers == Init /\ [][NextUsers]_vars

----------------------------------------------------------------------------
(* Requests served step by step.  Every request runs in its own db.session
   (a transaction at READ COMMITTED on the PostgreSQL database of
   config.py): its queries read what is committed and what the session
   itself has flushed, a Habit it has loaded keeps the attributes it was
   loaded with, and nothing it writes is seen by others before
   db.session.commit(). *)

Slots == {1, 2}

IdleSession ==
    [pc |-> "idle", op |-> "none", user_id |-> None, habit_id |-> None,
     today |-> None, completed_at |-> "", loaded |-> <<>>, habit |-> <<>>,
     found |-> {}, added |-> {}, deleted |-> {}, perfect |-> <<>>,
     status |-> 0, error |-> ""]

(* return jsonify(...), status: the request is over and its session holds
   nothing *)
Answered(s, status, error) ==
    [IdleSession EXCEPT !.pc = "done", !.op = s.op, !.user_id = s.user_id,
                        !.habit_id = s.habit_id, !.today = s.today,
                        !.status = status, !.error = error]

(* What the queries of session s return *)
session_view(db, s) ==
    [db EXCEPT
       !.completions = (db.completions \ s.deleted) \cup s.added,
       !.habits = [h \in DOMAIN db.habits |->
                     IF h = s.habit_id /\ s.habit # <<>>
                     THEN s.habit[1]
                     ELSE db.habits[h]],
       !.perfect_days_dates =
           IF s.perfect # <<>>
           THEN [@ EXCEPT ![s.user_id] = s.perfect[1].dates]
           ELSE @,
       !.perfect_days_count =
           IF s.perfect # <<>>
           THEN [@ EXCEPT ![s.user_id] = s.perfect[1].count]
           ELSE @]

(* complete_habit going on to add a completion without looking for an
   existing one *)
complete_habit_begin_unchecked(db, today_of_server, current_user_id, habit_id, local_date_str, local_timestamp) ==
    LET today == request_date(local_date_str, today_of_server)
        s == [IdleSession EXCEPT !.op = "complete", !.user_id = current_user_id,
                                 !.habit_id = habit_id, !.today = today]
    IN  IF ~ habit_of_user(db, habit_id, current_user_id)
        THEN Answered(s, 404, "")
        ELSE [s EXCEPT !.pc = "checked",
                       !.loaded = <<db.habits[habit_id]>>,
                       !.habit = <<db.habits[habit_id]>>,
                       !.completed_at = IF local_timestamp # ""
                                        THEN fromisoformat(local_timestamp)
                                        ELSE utcnow]

(* complete_habit up to db.session.add: the date, the habit, the existing
   completion and the timestamp *)
complete_habit_begin(db, today_of_server, current_user_id, habit_id, local_date_str, local_timestamp) ==
    LET today == request_date(local_date_str, today_of_server)
        s == [IdleSession EXCEPT !.op = "complete", !.user_id = current_user_id,
                                 !.habit_id = habit_id, !.today = today]
    IN  IF ~ habit_of_user(db, habit_id, current_user_id)
        THEN Answered(s, 404, "")
        ELSE IF has_completion(db.completions, habit_id, today)
        THEN Answered(s, 409, "")
        ELSE [s EXCEPT !.pc = "checked",
                       !.loaded = <<db.habits[habit_id]>>,
                       !.habit = <<db.habits[habit_id]>>,
                       !.completed_at = IF local_timestamp # ""
                                        THEN fromisoformat(local_timestamp)
                                        ELSE utcnow]

(* db.session.add and calculate_current_streak over a table with no unique
   constraint on (habit_id, completion_date) *)
complete_habit_add_unconstrained(db, today_of_server, s) ==
    IF s.habit_id \notin DOMAIN db.habits
    THEN Answered(s, 500, "IntegrityError")
    ELSE LET row == NewCompletion(s.habit_id, s.today, s.completed_at)
             current == calculate_current_streak(s.habit[1],
                                                 db.completions \cup {row},
                                                 today_of_server)
             longest == IF current > s.habit[1].longest_streak
                        THEN current
                        ELSE s.habit[1].longest_streak
         IN  [s EXCEPT !.pc = "recomputed",
                       !.added = {row},
                       !.habit = <<[s.habit[1] EXCEPT
                                      !.current_streak = current,
                                      !.longest_streak = longest]>>]

(* db.session.add(completion) and calculate_current_streak(habit), whose
   first query flushes the INSERT: the unique constraint
   _habit_completion_uc and the foreign key habits.id raise IntegrityError,
   which the handler answers with db.session.rollback() and 500 *)
complete_habit_add(db, today_of_server, s) ==
    IF \/ s.habit_id \notin DOMAIN db.habits
       \/ has_completion(db.completions, s.habit_id, s.today)
    THEN Answered(s, 500, "IntegrityError")
    ELSE LET row == NewCompletion(s.habit_id, s.today, s.completed_at)
             current == calculate_current_streak(s.habit[1],
                                                 db.completions \cup {row},
                                                 today_of_server)
             longest == IF current > s.habit[1].longest_streak
                        THEN current
                        ELSE s.habit[1].longest_streak
         IN  [s EXCEPT !.pc = "recomputed",
                       !.added = {row},
                       !.habit = <<[s.habit[1] EXCEPT
                                      !.current_streak = current,
                                      !.longest_streak = longest]>>]

(* uncomplete_habit up to db.session.delete: the date, the habit and the
   completion of that date *)
uncomplete_habit_begin(db, today_of_server, current_user_id, habit_id, local_date_str) ==
    LET today == request_date(local_date_str, today_of_server)
        s == [IdleSession EXCEPT !.op = "uncomplete", !.user_id = current_user_id,
                                 !.habit_id = habit_id, !.today = today]
    IN  IF ~ habit_of_user(db, habit_id, current_user_id)
        THEN Answered(s, 404, "")
        ELSE IF ~ has_completion(db.completions, habit_id, today)
        THEN Answered(s, 404, "")
        ELSE [s EXCEPT !.pc = "checked",
                       !.loaded = <<db.habits[habit_id]>>,
                       !.habit = <<db.habits[habit_id]>>,
                       !.found = { r \in db.completions :
                                     r.habit_id = habit_id
                                     /\ r.completion_date = today }]

(* db.session.delete(completion) and calculate_current_streak(habit), whose
   first query flushes the DELETE (a row that is gone by then deletes
   nothing) *)
uncomplete_habit_remove(db, today_of_server, s) ==
    LET current == calculate_current_streak(s.habit[1], db.completions \ s.found,
                                            today_of_server)
    IN  [s EXCEPT !.pc = "recomputed",
                  !.deleted = s.found \cap db.completions,
                  !.habit = <<[s.habit[1] EXCEPT !.current_streak = current]>>]

(* update_perfect_day_status(current_user_id, today) inside the session *)
session_update_perfect_day(db, today_of_server, s) ==
    LET view == session_view(db, s)
        after == update_perfect_day_status(view, s.user_id, s.today, today_of_server)
    IN  [s EXCEPT !.pc = "aggregated",
                  !.perfect =
                      IF after = view
                      THEN <<>>
                      ELSE <<[dates |-> after.perfect_days_dates[s.user_id],
                              count |-> after.perfect_days_count[s.user_id]]>>]

(* The UPDATE of the habit row matches no row: StaleDataError *)
stale_habit(db, s) ==
    s.habit # s.loaded /\ s.habit_id \notin DOMAIN db.habits

(* db.session.commit(): the rows and the columns the session changed *)
session_commit(db, s) ==
    [db EXCEPT
       !.completions = (db.completions \ s.deleted) \cup s.added,
       !.habits =
           [h \in DOMAIN db.habits |->
              IF h = s.habit_id
              THEN [db.habits[h] EXCEPT
                      !.current_streak =
                          IF s.habit[1].current_streak # s.loaded[1].current_streak
                          THEN s.habit[1].current_streak
                          ELSE @,
                      !.longest_streak =
                          IF s.habit[1].longest_streak # s.loaded[1].longest_streak
                          THEN s.habit[1].longest_streak
                          ELSE @]
              ELSE db.habits[h]],
       !.perfect_days_dates =
           IF s.perfect # <<>>
           THEN [@ EXCEPT ![s.user_id] = s.perfect[1].dates]
           ELSE @,
       !.perfect_days_count =
           IF s.perfect # <<>>
           THEN [@ EXCEPT ![s.user_id] = s.perfect[1].count]
           ELSE @]

(* A commit after db.session.add that leaves the later steps to a second
   transaction *)
session_commit_ledger_first(db, s) ==
    [db EXCEPT !.completions = (db.completions \ s.deleted) \cup s.added]

(* except Exception: db.session.rollback(), 500 *)
session_rollback(db, s) == db

database == <<habits, next_habit_id, completions, perfect_days_dates,
              perfect_days_count>>

InitSessions(slots) ==
    /\ server_today = 0
    /\ habits = EmptyDB.habits
    /\ next_habit_id = EmptyDB.next_habit_id
    /\ completions = EmptyDB.completions
    /\ perfect_days_dates = EmptyDB.perfect_days_dates
    /\ perfect_days_count = EmptyDB.perfect_days_count
    /\ response = Outcome("boot", 0, None, None, None, {})
    /\ twin = <<>>
    /\ sessions = [k \in slots |-> IdleSession]
    /\ sweep = <<>>
    /\ call = <<>>

(* The locks of PostgreSQL: an INSERT waits for the uncommitted row with
   the same unique key, a DELETE or an UPDATE for the session that has
   written the row *)
insert_blocked(k) ==
    \E j \in DOMAIN sessions \ {k} :
        \E r \in sessions[j].added :
            /\ r.habit_id = sessions[k].habit_id
            /\ r.completion_date = sessions[k].today

delete_blocked(k) ==
    \E j \in DOMAIN sessions \ {k} :
        sessions[j].deleted \cap sessions[k].found # {}

habit_row_locked(k, habit_id) ==
    \E j \in DOMAIN sessions \ {k} :
        /\ sessions[j].habit_id = habit_id
        /\ \/ sessions[j].pc = "aggregated" /\ sessions[j].habit # sessions[j].loaded
           \/ sessions[j].added # {}

Step(k, s) ==
    /\ sessions' = [sessions EXCEPT ![k] = s]
    /\ UNCHANGED <<database, server_today, response, twin, sweep, call>>

BeginComplete(slots, users, local_dates, timestamps) ==
    \E k \in slots, u \in users, h \in StreakHabitIds,
       ld \in local_dates, ts \in timestamps :
        /\ sessions[k].pc \in {"idle", "done"}
        /\ Step(k, complete_habit_begin(DB, server_today, u, h, ld, ts))

AddCompletion(slots) ==
    \E k \in slots :
        /\ sessions[k].pc = "checked"
        /\ sessions[k].op = "complete"
        /\ ~ insert_blocked(k)
        /\ Step(k, complete_habit_add(DB, server_today, sessions[k]))

BeginUncomplete(slots, users, local_dates) ==
    \E k \in slots, u \in users, h \in StreakHabitIds, ld \in local_dates :
        /\ sessions[k].pc \in {"idle", "done"}
        /\ Step(k, uncomplete_habit_begin(DB, server_today, u, h, ld))

RemoveCompletion(slots) ==
    \E k \in slots :
        /\ sessions[k].pc = "checked"
        /\ sessions[k].op = "uncomplete"
        /\ ~ delete_blocked(k)
        /\ Step(k, uncomplete_habit_remove(DB, server_today, sessions[k]))

UpdatePerfectDay(slots) ==
    \E k \in slots :
        /\ sessions[k].pc = "recomputed"
        /\ ~ habit_row_locked(k, sessions[k].habit_id)
        /\ Step(k, session_update_perfect_day(DB, server_today, sessions[k]))

CommitSession(slots) ==
    \E k \in slots :
        LET s == sessions[k]
        IN  /\ s.pc = "aggregated"
            /\ IF stale_habit(DB, s)
               THEN /\ Commit(session_rollback(DB, s))
                    /\ sessions' = [sessions EXCEPT
                                      ![k] = Answered(s, 500, "StaleDataError")]
                    /\ UNCHANGED response
               ELSE /\ StreaksWithinBound(session_commit(DB, s))
                    /\ Commit(session_commit(DB, s))
                    /\ sessions' = [sessions EXCEPT ![k] = Answered(s, 200, "")]
                    /\ response' = Outcome(s.op, 200, s.user_id, s.habit_id,
                                           s.today, {})
            /\ UNCHANGED <<server_today, twin, sweep, call>>

(* DELETE /api/habits/<habit_id>, served in one step; it waits for the
   sessions that have written a row of the habit *)
DeleteInSession(slots) ==
    \E k \in slots, u \in Users, h \in StreakHabitIds :
        LET r == delete_habit(DB, u, h)
            s == [IdleSession EXCEPT !.op = "delete", !.user_id = u,
                                     !.habit_id = h]
        IN  /\ sessions[k].pc \in {"idle", "done"}
            /\ ~ habit_row_locked(k, h)
            /\ Commit(r.db)
            /\ sessions' = [sessions EXCEPT ![k] = Answered(s, r.out.status, "")]
            /\ response' = IF r.out.status >= 400 THEN response ELSE r.out
            /\ UNCHANGED <<server_today, twin, sweep, call>>

(* The database fails under a request that has passed its checks: the
   query, the flush or the commit raises, and the handler rolls back *)
storage_error(pc) ==
    CASE pc = "checked" -> "StorageError in the ledger write"
      [] pc = "recomputed" -> "StorageError in the perfect-day update"
      [] pc = "aggregated" -> "StorageError in the commit"

StorageFails(slots) ==
    \E k \in slots :
        LET s == sessions[k]
        IN  /\ s.pc \in {"checked", "recomputed", "aggregated"}
            /\ Commit(session_rollback(DB, s))
            /\ sessions' = [sessions EXCEPT
                              ![k] = Answered(s, 500, storage_error(s.pc))]
            /\ UNCHANGED <<server_today, response, twin, sweep, call>>

(* One request at a time, served step by step, over a database that may
   fail *)
OneSlot == {1}
SessionTargetDays == {<<"every_day">>, <<"weekdays">>}
SessionStartDates == {isoformat(0)}
SessionLocalDates == {<<>>, isoformat(1), <<2025, 13, 1>>}
SessionTimestamps == {"", "2025-05-01T08:00:00Z"}

CreateForSessions ==
    \E td \in SessionTargetDays, sd \in SessionStartDates :
        /\ next_habit_id \in StreakHabitIds
        /\ Serve(create_habit(DB, server_today, 1, td, sd))

NextSession ==
    \/ CreateForSessions
    \/ BeginComplete(OneSlot, Users, SessionLocalDates, SessionTimestamps)
    \/ AddCompletion(OneSlot)
    \/ BeginUncomplete(OneSlot, Users, SessionLocalDates)
    \/ RemoveCompletion(OneSlot)
    \/ UpdatePerfectDay(OneSlot)
    \/ CommitSession(OneSlot)
    \/ DeleteInSession(OneSlot)
    \/ StorageFails(OneSlot)
    \/ Midnight

SpecSession == InitSessions(OneSlot) /\ [][NextSession]_vars

(* Two requests of the owner of one habit in flight at once, within one
   day of the server, over a database that does not fail *)
RaceUsers == {1}
RaceLocalDates == {<<>>, isoformat(1)}

NextRace ==
    \/ CreateForSessions
    \/ BeginComplete(Slots, RaceUsers, RaceLocalDates, SessionTimestamps)
    \/ AddCompletion(Slots)
    \/ BeginUncomplete(Slots, RaceUsers, RaceLocalDates)
    \/ RemoveCompletion(Slots)
    \/ UpdatePerfectDay(Slots)
    \/ CommitSession(Slots)

SpecRace == InitSessions(Slots) /\ [][NextRace]_vars

(* Complete requests of the owner of one habit in flight while the habit is
   deleted *)
CascadeTimestamps == {""}

NextCascade ==
    \/ CreateForSessions
    \/ BeginComplete(Slots, RaceUsers, RaceLocalDates, CascadeTimestamps)
    \/ AddCompletion(Slots)
    \/ UpdatePerfectDay(Slots)
    \/ CommitSession(Slots)
    \/ DeleteInSession(Slots)

SpecCascade == InitSessions(Slots) /\ [][NextCascade]_vars

(* Two every_day habits of one user, each completed by a request of its
   own, the two requests in flight at once *)
PairHabitIds == {1, 2}

CreatePairForSessions ==
    \E sd \in SessionStartDates :
        /\ next_habit_id \in PairHabitIds
        /\ Serve(create_habit(DB, server_today, 1, <<"every_day">>, sd))

BeginCompleteOf(slots, users, habit_ids, local_dates, timestamps) ==
    \E k \in slots, u \in users, h \in habit_ids,
       ld \in local_dates, ts \in timestamps :
        /\ sessions[k].pc \in {"idle", "done"}
        /\ Step(k, complete_habit_begin(DB, server_today, u, h, ld, ts))

NextPair ==
    \/ CreatePairForSessions
    \/ BeginCompleteOf(Slots, RaceUsers, PairHabitIds, NoLocalDate, CascadeTimestamps)
    \/ AddCompletion(Slots)
    \/ UpdatePerfectDay(Slots)
    \/ CommitSession(Slots)

SpecPair == InitSessions(Slots) /\ [][NextPair]_vars

----------------------------------------------------------------------------
(* The startup sweep of one process running beside a request that another
   process serves.  The sweep loads the habits, recalculates the streak of
   each from the ledger, and commits the streaks that changed. *)

IdleSweep ==
    [pc |-> "idle", loaded |-> <<>>, streaks |-> <<>>, origin |-> <<>>,
     request |-> <<>>]

InitSweep ==
    /\ server_today = 0
    /\ habits = EmptyDB.habits
    /\ next_habit_id = EmptyDB.next_habit_id
    /\ completions = EmptyDB.completions
    /\ perfect_days_dates = EmptyDB.perfect_days_dates
    /\ perfect_days_count = EmptyDB.perfect_days_count
    /\ response = Outcome("boot", 0, None, None, None, {})
    /\ twin = <<>>
    /\ sessions = <<>>
    /\ sweep = IdleSweep
    /\ call = <<>>

(* habits = Habit.query.all() *)
SweepLoads ==
    /\ sweep.pc = "idle"
    /\ habits # <<>>
    /\ sweep' = [IdleSweep EXCEPT !.pc = "loaded", !.loaded = habits,
                                  !.origin = <<DB>>]
    /\ UNCHANGED <<database, server_today, response, twin, sessions, call>>

(* new_streak = calculate_current_streak(habit), for each habit loaded *)
SweepRecalculates ==
    /\ sweep.pc = "loaded"
    /\ sweep' = [sweep EXCEPT
                   !.pc = "recalculated",
                   !.streaks = [h \in DOMAIN sweep.loaded |->
                                  calculate_current_streak(sweep.loaded[h],
                                                           completions,
                                                           server_today)]]
    /\ UNCHANGED <<database, server_today, response, twin, sessions, call>>

(* db.session.commit(): UPDATE habits SET current_streak for each habit
   whose new streak is not the one loaded *)
sweep_commit(db, sw) ==
    [db EXCEPT !.habits =
        [h \in DOMAIN db.habits |->
           IF h \in DOMAIN sw.loaded
              /\ sw.streaks[h] # sw.loaded[h].current_streak
           THEN [db.habits[h] EXCEPT !.current_streak = sw.streaks[h]]
           ELSE db.habits[h]]]

SweepCommits ==
    /\ sweep.pc = "recalculated"
    /\ StreaksWithinBound(sweep_commit(DB, sweep))
    /\ Commit(sweep_commit(DB, sweep))
    /\ sweep' = [sweep EXCEPT !.pc = "committed"]
    /\ UNCHANGED <<server_today, response, twin, sessions, call>>

(* recalculate_all_streaks returns *)
SweepReturns ==
    /\ sweep.pc = "committed"
    /\ sweep' = IdleSweep
    /\ UNCHANGED <<database, server_today, response, twin, sessions, call>>

(* The request a sweep has met *)
serve_request(db, today_of_server, req) ==
    IF req.op = "complete"
    THEN complete_habit(db, today_of_server, req.user_id, req.habit_id,
                        req.local_date, "")
    ELSE uncomplete_habit(db, today_of_server, req.user_id, req.habit_id,
                          req.local_date)

SweepRequests ==
    [op : {"complete", "uncomplete"}, user_id : {1}, habit_id : StreakHabitIds,
     local_date : NoLocalDate]

(* A complete or uncomplete request is served, from its first query to its
   commit, after the sweep has loaded the habits and before it commits *)
RequestDuringSweep ==
    \E req \in SweepRequests :
        LET r == serve_request(DB, server_today, req)
        IN  /\ sweep.pc \in {"loaded", "recalculated"}
            /\ sweep.request = <<>>
            /\ r.out.status = 200
            /\ Answer(r)
            /\ sweep' = [sweep EXCEPT !.request = <<req>>]
            /\ UNCHANGED <<twin, sessions, call>>

(* The requests and the midnights between two sweeps *)
BetweenSweeps ==
    /\ sweep.pc = "idle"
    /\ \/ CreateForSessions
       \/ CompleteHabit(StreakHabitIds, NoLocalDate)
       \/ UncompleteHabit(StreakHabitIds, NoLocalDate)
       \/ Midnight

NextSweep ==
    \/ BetweenSweeps
    \/ SweepLoads
    \/ SweepRecalculates
    \/ RequestDuringSweep
    \/ SweepCommits
    \/ SweepReturns

SpecSweep == InitSweep /\ [][NextSweep]_vars

----------------------------------------------------------------------------
(* Functions called on their own: the call starts with the arguments and
   ends with what the function returns *)

InitCall(calls) ==
    /\ server_today = 0
    /\ habits = EmptyDB.habits
    /\ next_habit_id = EmptyDB.next_habit_id
    /\ completions = EmptyDB.completions
    /\ perfect_days_dates = EmptyDB.perfect_days_dates
    /\ perfect_days_count = EmptyDB.perfect_days_count
    /\ response = Outcome("boot", 0, None, None, None, {})
    /\ twin = <<>>
    /\ sessions = <<>>
    /\ sweep = <<>>
    /\ call \in calls

Return(fn, value) ==
    /\ call' = [call EXCEPT !.fn = fn, !.returns = <<value>>]
    /\ UNCHANGED <<database, server_today, response, twin, sessions, sweep>>

(* The schedule evaluator *)
ScheduleTargetDays ==
    {<<"every_day">>, <<"weekdays">>, <<"thursday", "saturday">>,
     <<"saturday", "thursday">>, <<"SATURDAY", " Friday">>, <<"Thursday">>,
     <<"funday", "noday">>, <<"custom">>, <<"Every_Day">>}
ScheduleStartDates == {0, 3}
ScheduleDates == 0..MaxWeekDay

(* A habit as far as the schedule evaluator reads it *)
ScheduledHabit(target_days, start_date) ==
    [target_days |-> target_days, start_date |-> start_date]

ScheduleCalls ==
    { [fn |-> "", habit |-> ScheduledHabit(target_days, start_date),
       check_date |-> check_date, returns |-> <<>>] :
        target_days \in ScheduleTargetDays,
        start_date \in ScheduleStartDates,
        check_date \in ScheduleDates }

(* is_habit_due_on_date(habit, check_date) is called *)
IsHabitDueOnDate ==
    Return("is_habit_due_on_date", is_habit_due_on_date(call.habit, call.check_date))

(* habit.is_due_today(check_date) is called *)
IsDueToday ==
    Return("is_due_today", is_due_today(call.habit, call.check_date, server_today))

(* habit.is_due_today() is called on the day in question *)
IsDueTodayOfServer ==
    /\ call.check_date = server_today
    /\ Return("is_due_today", is_due_today(call.habit, None, server_today))

NextSchedule ==
    \/ IsHabitDueOnDate
    \/ IsDueToday
    \/ IsDueTodayOfServer

SpecSchedule == InitCall(ScheduleCalls) /\ [][NextSchedule]_vars

(* The milestone of a user with any number of perfect days *)
MilestoneCalls ==
    { [fn |-> "", user |-> [perfect_days_count |-> c], returns |-> <<>>] :
        c \in 0..MaxCount }

(* user.get_next_milestone() is called *)
GetNextMilestone ==
    Return("get_next_milestone", get_next_milestone(call.user))

NextMilestone ==
    \/ GetNextMilestone

SpecMilestone == InitCall(MilestoneCalls) /\ [][NextMilestone]_vars

(* calculate_current_streak run statement by statement: the call keeps
   previous_date, the dates the loop has passed to is_habit_due_on_date, and
   base_streak *)
ScanTargetDays ==
    {<<"every_day">>, <<"weekdays">>, <<"thursday", "saturday">>, <<"custom">>}
ScanStartDates == {0, 3, MaxWeekDay + 1}
ScanLedgers ==
    { { NewCompletion(1, d, utcnow) : d \in ds } :
        ds \in {{}, ScheduleDates, { d \in ScheduleDates : d % 2 = 0 }} }
ScanStoredStreaks == {2}

ScanCalls ==
    { [fn |-> "", pc |-> "called",
       habit |-> [NewHabit(1, 1, target_days, start_date) EXCEPT
                    !.current_streak = current_streak],
       rows |-> rows,
       current_date |-> current_date,
       previous_date |-> <<>>,
       inspected |-> <<>>,
       base_streak |-> <<>>,
       returns |-> <<>>] :
        target_days \in ScanTargetDays,
        start_date \in ScanStartDates,
        current_streak \in ScanStoredStreaks,
        rows \in ScanLedgers,
        current_date \in ScheduleDates }

Resume(c) ==
    /\ call' = c
    /\ UNCHANGED <<database, server_today, response, twin, sessions, sweep>>

(* base_streak = 0; previous_date = current_date - timedelta(days=1) *)
ScanBegins ==
    /\ call.pc = "called"
    /\ Resume([call EXCEPT !.fn = "calculate_current_streak",
                           !.pc = "loop",
                           !.base_streak = <<0>>,
                           !.previous_date = <<call.current_date - 1>>])

(* One iteration of the loop: the date is due and the loop breaks with the
   base streak, or previous_date moves one day back *)
ScanInspects ==
    /\ call.pc = "loop"
    /\ scan_continues(call.habit, call.previous_date[1])
    /\ LET previous_date == call.previous_date[1]
           inspected == Append(call.inspected, previous_date)
       IN  IF is_habit_due_on_date(call.habit, previous_date)
           THEN Resume([call EXCEPT
                          !.pc = "left",
                          !.inspected = inspected,
                          !.base_streak =
                              IF has_completion(call.rows, call.habit.id, previous_date)
                              THEN <<call.habit.current_streak>>
                              ELSE <<0>>])
           ELSE Resume([call EXCEPT
                          !.inspected = inspected,
                          !.previous_date = <<previous_date - 1>>])

(* The while condition is false: previous_date is before the start date *)
ScanPassesStart ==
    /\ call.pc = "loop"
    /\ ~ scan_continues(call.habit, call.previous_date[1])
    /\ Resume([call EXCEPT !.pc = "left"])

(* Step 2 and the return *)
ScanReturns ==
    /\ call.pc = "left"
    /\ Resume([call EXCEPT
                 !.pc = "done",
                 !.returns =
                     IF is_habit_due_on_date(call.habit, call.current_date)
                     THEN IF has_completion(call.rows, call.habit.id, call.current_date)
                          THEN <<call.base_streak[1] + 1>>
                          ELSE <<0>>
                     ELSE call.base_streak])

NextScan ==
    \/ ScanBegins
    \/ ScanInspects
    \/ ScanPassesStart
    \/ ScanReturns

SpecScan == InitCall(ScanCalls) /\ [][NextScan]_vars

(* A call that has started runs on to its return *)
SpecScanFair == SpecScan /\ WF_vars(NextScan)

----------------------------------------------------------------------------
(* The history of one habit, read between the requests that change it *)

HistoryTargetDays == {<<"every_day">>, <<"Thursday", " saturday">>}
HistoryRanges ==
    {<<<<>>, <<>>>>, <<isoformat(0), isoformat(MaxDay)>>,
     <<isoformat(1), isoformat(0)>>, <<<<2025, 13, 1>>, isoformat(0)>>}

(* A request that changes the database is served; what the last read-only
   request returned is gone with its response *)
ServeAfterCall(r) ==
    /\ Answer(r)
    /\ call' = <<>>
    /\ UNCHANGED <<twin, sessions, sweep>>

HistoryCreateHabit ==
    \E td \in HistoryTargetDays, sd \in StartDateInputs :
        /\ next_habit_id \in StreakHabitIds
        /\ ServeAfterCall(create_habit(DB, server_today, 1, td, sd))

HistoryCompleteHabit ==
    \E h \in StreakHabitIds, ld \in LocalDateInputs, ts \in LocalTimestampInputs :
        ServeAfterCall(complete_habit(DB, server_today, 1, h, ld, ts))

HistoryUncompleteHabit ==
    \E h \in StreakHabitIds, ld \in LocalDateInputs :
        ServeAfterCall(uncomplete_habit(DB, server_today, 1, h, ld))

(* GET /api/habits/<habit_id>/history is served: the call keeps the request,
   the rows it read and the response *)
GetHabitHistory ==
    /\ \E u \in Users, h \in StreakHabitIds, range \in HistoryRanges :
         call' = [fn |-> "get_habit_history",
                  user_id |-> u,
                  habit_id |-> h,
                  start_date |-> range[1],
                  end_date |-> range[2],
                  today |-> server_today,
                  habit |-> IF h \in DOMAIN habits THEN <<habits[h]>> ELSE <<>>,
                  completion_dates |->
                      { r.completion_date : r \in { x \in completions : x.habit_id = h } },
                  returns |-> get_habit_history(DB, server_today, u, h, range[1], range[2])]
    /\ UNCHANGED <<database, server_today, response, twin, sessions, sweep>>

NextHistory ==
    \/ HistoryCreateHabit
    \/ HistoryCompleteHabit
    \/ HistoryUncompleteHabit
    \/ GetHabitHistory
    \/ Midnight

SpecHistory == Init /\ [][NextHistory]_vars

----------------------------------------------------------------------------
(* Properties *)

(* The dates on which the ledger holds a completion of habit h *)
ledger_dates(rows, h) ==
    { r.completion_date : r \in { x \in rows : x.habit_id = h } }

(* The request that committed last was `op` on habit h *)
LastCommitted(op, h) ==
    response.op = op /\ response.habit_id = h

(* C1: an every_day habit that starts on D1 and is completed on D1, D1+1 and
   D1+2, each on its own day, has currentStreak 3; uncompleting D1+2 on
   D1+2 then leaves currentStreak 2 and longestStreak 3.  Checked where no
   request carries a local_date. *)
C1_ThreeDaysThenUncomplete ==
    \A h \in DOMAIN habits :
        LET D1 == habits[h].start_date
            D3 == D1 + 2
        IN  (/\ habits[h].target_days = <<"every_day">>
             /\ server_today = D3
             /\ response.date = D3)
            =>
            /\ (/\ LastCommitted("complete", h)
                /\ ledger_dates(completions, h) = D1..D3)
               => habits[h].current_streak = 3
            /\ (/\ LastCommitted("uncomplete", h)
                /\ ledger_dates(completions, h) = D1..(D3 - 1))
               => /\ habits[h].current_streak = 2
                  /\ habits[h].longest_streak = 3

(* C2: once the startup recalculation has run, running it again on the same
   day with the ledger untouched stores the same currentStreak for every
   habit. *)
C2_RecalculationIdempotent ==
    (response.op = "startup" /\ response.date = server_today)
    => \A h \in DOMAIN habits :
           calculate_current_streak(habits[h], completions, server_today)
             = habits[h].current_streak

(* C3: every habit has 0 <= currentStreak <= longestStreak. *)
C3_StreakWithinLongest ==
    \A h \in DOMAIN habits :
        /\ 0 <= habits[h].current_streak
        /\ habits[h].current_streak <= habits[h].longest_streak

(* C4: an every_day habit whose ledger holds exactly the N days from its
   start date to today, each completed on its own day, has currentStreak N
   and longestStreak at least N.  Checked where no request carries a
   local_date. *)
C4_ContiguousDaysCount ==
    \A h \in DOMAIN habits :
        LET N == server_today - habits[h].start_date + 1
        IN  (/\ habits[h].target_days = <<"every_day">>
             /\ N >= 1
             /\ ledger_dates(completions, h) = habits[h].start_date..server_today)
            => /\ habits[h].current_streak = N
               /\ habits[h].longest_streak >= N

(* The dates before `today` on which the habit was due *)
previous_due_dates(habit, today) ==
    { d \in habit.start_date..(today - 1) : is_habit_due_on_date(habit, d) }

(* The most recent due date before `today` has no completion *)
Gap(habit, rows, today) ==
    /\ previous_due_dates(habit, today) # {}
    /\ LET last == CHOOSE d \in previous_due_dates(habit, today) :
                       \A e \in previous_due_dates(habit, today) : e <= d
       IN  ~ has_completion(rows, habit.id, last)

(* C5: whenever a streak is recalculated (by the startup sweep, or for the
   habit of a complete or uncomplete request) on a day the habit is due and
   not completed, and the most recent due date before it has no completion,
   the stored currentStreak becomes 0 whatever it was, and longestStreak
   does not decrease. *)
C5_GapResetsStreak ==
    [][ \A h \in DOMAIN habits \cap DOMAIN habits' :
          (/\ server_today' = server_today
           /\ \/ response'.op = "startup"
              \/ response'.op \in {"complete", "uncomplete"} /\ response'.habit_id = h
           /\ Gap(habits'[h], completions', server_today')
           /\ is_habit_due_on_date(habits'[h], server_today')
           /\ ~ has_completion(completions', h, server_today'))
          => /\ habits'[h].current_streak = 0
             /\ habits'[h].longest_streak >= habits[h].longest_streak ]_vars

(* The startup sweep has just reset the non-zero streak of a habit with a
   gap *)
C5_Witness ==
    \E h \in DOMAIN habits :
        /\ response.op = "startup"
        /\ response.date = server_today
        /\ h \in response.updated
        /\ Gap(habits[h], completions, server_today)
        /\ is_habit_due_on_date(habits[h], server_today)
        /\ ~ has_completion(completions, h, server_today)
        /\ habits[h].current_streak = 0
        /\ habits[h].longest_streak >= 1

Max(a, b) == IF a >= b THEN a ELSE b

(* C6: no step lowers the longestStreak of a habit, whichever request it
   serves, and a step that commits a completion of the habit leaves
   longestStreak = max(longestStreak before, currentStreak after). *)
C6_LongestNeverDecreases ==
    [][ \A h \in DOMAIN habits \cap DOMAIN habits' :
          /\ habits'[h].longest_streak >= habits[h].longest_streak
          /\ (/\ server_today' = server_today
              /\ response'.op = "complete"
              /\ response'.habit_id = h)
             => habits'[h].longest_streak =
                  Max(habits[h].longest_streak, habits'[h].current_streak) ]_vars

(* An uncompletion has just brought currentStreak to 0 under a longestStreak
   of 2 or more *)
C6_Witness ==
    \E h \in DOMAIN habits :
        /\ LastCommitted("uncomplete", h)
        /\ habits[h].current_streak = 0
        /\ habits[h].longest_streak >= 2

(* The habits of user u that are due on date d, by the schedule evaluator *)
due_habits_on(hs, user_id, d) ==
    { h \in DOMAIN hs : hs[h].user_id = user_id /\ is_due_today(hs[h], d, d) }

(* The perfect-day set stored for user u *)
perfect_days_of(dates_column, user_id) ==
    { dates_column[user_id][i] : i \in DOMAIN dates_column[user_id] }

(* d is a perfect day of user u exactly when some habit of u is due on d and
   every habit of u due on d has a completion on d *)
PerfectDayIffAllCompleted(hs, rows, dates_column, user_id, d) ==
    (isoformat(d) \in perfect_days_of(dates_column, user_id))
    <=> /\ due_habits_on(hs, user_id, d) # {}
        /\ \A h \in due_habits_on(hs, user_id, d) : has_completion(rows, h, d)

(* C7: no perfect-day set holds a date on which none of the user's habits
   is due. *)
C7_PerfectDayHasDueHabit ==
    \A u \in Users :
        \A s \in perfect_days_of(perfect_days_dates, u) :
            due_habits_on(habits, u, strptime(s)) # {}

(* C8: once a complete or uncomplete request of user u carrying date d has
   committed, d is in u's perfect-day set iff some habit of u is due on d
   and every habit of u due on d has a completion on d. *)
C8_PerfectDayAfterCompletion ==
    response.op \in {"complete", "uncomplete"}
    => PerfectDayIffAllCompleted(habits, completions, perfect_days_dates,
                                 response.user_id, response.date)

(* C9: a step that commits a habit creation or deletion of user u leaves
   today in u's perfect-day set iff some remaining habit of u is due today
   and every remaining habit of u due today is completed today. *)
C9_TodayReevaluated ==
    [][ (server_today' = server_today /\ response'.op \in {"create", "delete"})
        => PerfectDayIffAllCompleted(habits', completions', perfect_days_dates',
                                     response'.user_id, server_today') ]_vars

(* C10: two runs that serve the same requests, every complete and uncomplete
   request carrying its local_date, hold the same currentStreak and
   longestStreak for every habit and the same perfect-day sets, whatever the
   dates of their servers. *)
C10_ServerDateIrrelevant ==
    /\ DOMAIN twin.db.habits = DOMAIN habits
    /\ \A h \in DOMAIN habits :
           /\ twin.db.habits[h].current_streak = habits[h].current_streak
           /\ twin.db.habits[h].longest_streak = habits[h].longest_streak
    /\ \A u \in Users :
           perfect_days_of(twin.db.perfect_days_dates, u)
             = perfect_days_of(perfect_days_dates, u)

(* Session k has just received a request: it was free and now holds it *)
Begins(k) ==
    /\ sessions[k].pc \in {"idle", "done"}
    /\ sessions'[k] # sessions[k]

(* C11: the committed ledger never holds two completions of one habit on
   one date, whatever two requests in flight at once do. *)
C11_OneCompletionPerDay ==
    \A r1 \in completions, r2 \in completions :
        (r1.habit_id = r2.habit_id /\ r1.completion_date = r2.completion_date)
        => r1 = r2

(* A request lost to the unique constraint: it had found no completion, and
   its INSERT met the one another request committed meanwhile *)
C11_Witness ==
    \E k \in DOMAIN sessions :
        /\ sessions[k].op = "complete"
        /\ sessions[k].error = "IntegrityError"
        /\ has_completion(completions, sessions[k].habit_id, sessions[k].today)

(* C12: a complete request of the habit's owner for a date that already has
   a completion is answered 409, and the step changes no row of the
   database: the completion and its timestamp, the streaks and the
   perfect-day columns stay as they are. *)
C12_DuplicateCompletionConflicts ==
    [][ \A k \in DOMAIN sessions :
          (/\ Begins(k)
           /\ sessions'[k].op = "complete"
           /\ habit_of_user(DB, sessions'[k].habit_id, sessions'[k].user_id)
           /\ has_completion(completions, sessions'[k].habit_id, sessions'[k].today))
          => /\ sessions'[k].pc = "done"
             /\ sessions'[k].status = 409
             /\ UNCHANGED database ]_vars

(* A complete request has been answered 409 and the completion it met is
   still in the ledger *)
C12_Witness ==
    \E k \in DOMAIN sessions :
        /\ sessions[k].op = "complete"
        /\ sessions[k].status = 409
        /\ has_completion(completions, sessions[k].habit_id, sessions[k].today)

(* C13: an uncomplete request for a date without a completion, and a
   complete, uncomplete or delete request for a habit that does not exist or
   belongs to another user, is answered 404, and the step changes no row of
   the database. *)
C13_NotFoundChangesNothing ==
    [][ \A k \in DOMAIN sessions :
          (/\ Begins(k)
           /\ sessions'[k].op \in {"complete", "uncomplete", "delete"}
           /\ \/ ~ habit_of_user(DB, sessions'[k].habit_id, sessions'[k].user_id)
              \/ /\ sessions'[k].op = "uncomplete"
                 /\ ~ has_completion(completions, sessions'[k].habit_id,
                                     sessions'[k].today))
          => /\ sessions'[k].pc = "done"
             /\ sessions'[k].status = 404
             /\ UNCHANGED database ]_vars

(* A delete request of another user has been answered 404 and the habit is
   still there with a completion *)
C13_Witness ==
    \E k \in DOMAIN sessions :
        /\ sessions[k].op = "delete"
        /\ sessions[k].status = 404
        /\ sessions[k].habit_id \in DOMAIN habits
        /\ habits[sessions[k].habit_id].user_id # sessions[k].user_id
        /\ ledger_dates(completions, sessions[k].habit_id) # {}

(* Session k has passed the existence check of complete_habit and another
   request has committed a completion of the same habit and date since *)
LostTheRace(k) ==
    /\ sessions[k].op = "complete"
    /\ sessions[k].pc = "checked"
    /\ has_completion(completions, sessions[k].habit_id, sessions[k].today)

(* C14: of two complete requests for one habit and date that both pass the
   existence check before either commits, the one that comes second is
   answered with the conflict outcome 409 and its step changes no row of the
   database, so the streaks and the perfect-day columns are those of the one
   completion that succeeded. *)
C14_RaceLoserSeesConflict ==
    [][ \A k \in DOMAIN sessions :
          (LostTheRace(k) /\ sessions'[k] # sessions[k])
          => /\ sessions'[k].pc = "done"
             /\ sessions'[k].status = 409
             /\ UNCHANGED database ]_vars

(* C15: when the database fails under a complete or uncomplete request that
   has passed its checks (in the ledger write, which the streak
   recalculation flushes, in the perfect-day update or in the commit) the
   request is answered 500 and the step that ends it leaves the ledger, the
   streaks and the perfect-day columns as they were before the request. *)
C15_StorageFailureRollsBack ==
    [][ \A k \in DOMAIN sessions :
          (/\ sessions[k].pc \in {"checked", "recomputed", "aggregated"}
           /\ sessions'[k].pc = "done"
           /\ sessions'[k].status = 500)
          => /\ UNCHANGED database
             /\ sessions'[k].added = {}
             /\ sessions'[k].deleted = {}
             /\ sessions'[k].habit = <<>>
             /\ sessions'[k].perfect = <<>> ]_vars

(* The commit of an uncomplete request has failed and the completion it was
   removing is still in the ledger *)
C15_Witness ==
    \E k \in DOMAIN sessions :
        /\ sessions[k].op = "uncomplete"
        /\ sessions[k].error = "StorageError in the commit"
        /\ has_completion(completions, sessions[k].habit_id, sessions[k].today)
        /\ habits[sessions[k].habit_id].current_streak >= 1

(* C16: on every database the application reaches, a complete request that
   succeeds for a habit and a date, followed by the uncomplete request for
   the same habit and date, succeeds too, leaves no completion of the habit
   on that date and leaves the ledger equal to the ledger before the two
   requests. *)
C16_CompleteUncompleteRoundTrip ==
    \A u \in Users, h \in DOMAIN habits, ld \in LocalDateInputs :
        LET d == request_date(ld, server_today)
            completed == complete_habit(DB, server_today, u, h, ld, "")
            uncompleted == uncomplete_habit(completed.db, server_today, u, h, ld)
        IN  completed.out.status = 200
            => /\ has_completion(completed.db.completions, h, d)
               /\ uncompleted.out.status = 200
               /\ ~ has_completion(uncompleted.db.completions, h, d)
               /\ uncompleted.db.completions = completions

(* An uncomplete request has just undone the completion of a date, beside
   the completion of another date that stays in the ledger *)
C16_Witness ==
    \E h \in DOMAIN habits :
        /\ LastCommitted("uncomplete", h)
        /\ ~ has_completion(completions, h, response.date)
        /\ ledger_dates(completions, h) # {}

(* C17: for every user the stored perfect_days_count is the number of dates
   in the stored perfect-day set, and stays so after add_perfect_day and
   remove_perfect_day of any date, one that is in the set or one that is
   not. *)
C17_CountIsCardinality ==
    \A u \in Users :
        /\ perfect_days_count[u] = Cardinality(perfect_days_of(perfect_days_dates, u))
        /\ \A date_str \in DateStrings :
               LET added == add_perfect_day(DB, u, date_str)
                   removed == remove_perfect_day(DB, u, date_str)
               IN  /\ added.perfect_days_count[u]
                        = Cardinality(get_perfect_days_set(added, u))
                   /\ date_str \in get_perfect_days_set(added, u)
                   /\ removed.perfect_days_count[u]
                        = Cardinality(get_perfect_days_set(removed, u))
                   /\ date_str \notin get_perfect_days_set(removed, u)

(* An uncomplete request has just removed one perfect day of a user and
   another perfect day is left *)
C17_Witness ==
    \E u \in Users :
        /\ response.op = "uncomplete"
        /\ response.user_id = u
        /\ isoformat(response.date) \notin perfect_days_of(perfect_days_dates, u)
        /\ perfect_days_count[u] >= 1

(* C18: on every database the application reaches, for every user and date,
   update_perfect_day_status called again right after itself changes neither
   the perfect-day set nor the count. *)
C18_PerfectDayUpdateIdempotent ==
    \A u \in Users, d \in Dates :
        LET once == update_perfect_day_status(DB, u, d, server_today)
            twice == update_perfect_day_status(once, u, d, server_today)
        IN  /\ twice.perfect_days_dates = once.perfect_days_dates
            /\ twice.perfect_days_count = once.perfect_days_count

(* A database on which the first call has something to do: the set holds a
   date that the call removes *)
C18_Witness ==
    \E u \in Users, d \in Dates :
        /\ isoformat(d) \in perfect_days_of(perfect_days_dates, u)
        /\ isoformat(d) \notin
             get_perfect_days_set(update_perfect_day_status(DB, u, d, server_today), u)

(* C20: a habit is not due on any date before its start date, whatever its
   target_days, by app.py is_habit_due_on_date and by Habit.is_due_today
   (given the date, or given none on a server whose date is before the
   start date). *)
C20_NotDueBeforeStart ==
    \A h \in DOMAIN habits :
        /\ \A d \in Dates :
               d < habits[h].start_date
               => /\ ~ is_habit_due_on_date(habits[h], d)
                  /\ ~ is_due_today(habits[h], d, server_today)
        /\ server_today < habits[h].start_date
           => ~ is_due_today(habits[h], None, server_today)

(* A habit whose custom day list names today, a Thursday, and whose start
   date is tomorrow *)
C20_Witness ==
    \E h \in DOMAIN habits :
        /\ habits[h].start_date > server_today
        /\ Len(habits[h].target_days) > 1
        /\ weekday_names[weekday(server_today) + 1] \in
             { lower(strip(habits[h].target_days[i])) :
                 i \in DOMAIN habits[h].target_days }

(* The streaks of habit h in database db *)
streaks_of(db, h) ==
    <<db.habits[h].current_streak, db.habits[h].longest_streak>>

(* C19: when a startup sweep that a complete or uncomplete request has
   crossed has committed, the currentStreak and longestStreak of the
   request's habit are those that the sweep followed by the request, or the
   request followed by the sweep, would have left on the database the sweep
   started from. *)
C19_SweepInterleavesSafely ==
    (sweep.pc = "committed" /\ sweep.request # <<>>)
    => LET req == sweep.request[1]
           origin == sweep.origin[1]
           sweep_first ==
               serve_request(recalculate_all_streaks(origin, server_today).db,
                             server_today, req).db
           request_first ==
               recalculate_all_streaks(serve_request(origin, server_today, req).db,
                                       server_today).db
       IN  streaks_of(DB, req.habit_id)
             \in {streaks_of(sweep_first, req.habit_id),
                  streaks_of(request_first, req.habit_id)}

(* The weekday names a schedule lists, each entry trimmed and in lower case *)
schedule_names(target_days) ==
    { n \in { weekday_names[i] : i \in DOMAIN weekday_names } :
        \E i \in DOMAIN target_days : lower(strip(target_days[i])) = n }

(* The same entries in the opposite order *)
reversed(target_days) ==
    [i \in DOMAIN target_days |-> target_days[Len(target_days) + 1 - i]]

(* The schedule evaluator has been called for a date on or after the start *)
ScheduleCall ==
    /\ call.fn \in {"is_habit_due_on_date", "is_due_today"}
    /\ call.check_date >= call.habit.start_date

(* C21: for every date on or after the start date, an every_day schedule is
   due, a weekdays schedule is due exactly from Monday to Friday, and any
   other schedule is due exactly when the weekday name of the date is one of
   the names it lists, whatever their case and their order; a schedule that
   lists no weekday name is never due, and the evaluator still answers. *)
C21_DueBySchedule ==
    ScheduleCall =>
        LET td == call.habit.target_days
            name == weekday_names[weekday(call.check_date) + 1]
        IN  /\ call.returns[1] \in BOOLEAN
            /\ td = <<"every_day">> => call.returns[1]
            /\ td = <<"weekdays">> => (call.returns[1] <=> weekday(call.check_date) \in 0..4)
            /\ td \notin {<<"every_day">>, <<"weekdays">>} =>
                 /\ call.returns[1] <=> name \in schedule_names(td)
                 /\ call.returns[1] =
                      is_habit_due_on_date(ScheduledHabit(reversed(td), call.habit.start_date), call.check_date)
                 /\ schedule_names(td) = {} => ~ call.returns[1]

(* A schedule written in capitals and with a space is due on its Saturday *)
C21_Witness ==
    /\ ScheduleCall
    /\ call.fn = "is_habit_due_on_date"
    /\ call.habit.target_days = <<"SATURDAY", " Friday">>
    /\ weekday(call.check_date) = 5
    /\ call.returns[1]

(* A schedule of one of the three forms: every_day, weekdays, or one to
   seven weekday names *)
well_formed_schedule(target_days) ==
    \/ target_days = <<"every_day">>
    \/ target_days = <<"weekdays">>
    \/ /\ Len(target_days) \in 1..7
       /\ \A i \in DOMAIN target_days :
            \E j \in DOMAIN weekday_names :
                lower(strip(target_days[i])) = weekday_names[j]

(* The local_date strings that are not a date *)
MalformedDates == { s \in LocalDateInputs : s # <<>> /\ strptime(s) = None }

(* C22: a request with a malformed schedule or a malformed date is refused
   and stores nothing: every stored habit has a schedule of one of the three
   forms, and a complete or uncomplete request whose local_date is not a
   date leaves the database as it was. *)
C22_InvalidInputRejected ==
    [][ /\ \A h \in DOMAIN habits' : well_formed_schedule(habits'[h].target_days)
        /\ \/ CompleteHabit(StreakHabitIds, MalformedDates)
           \/ UncompleteHabit(StreakHabitIds, MalformedDates)
           => UNCHANGED database ]_vars

(* All that the database holds for user u: the habits with their streaks,
   their completions, and the perfect-day set with its counter *)
state_of_user(u) ==
    [habits |-> { habits[h] : h \in { i \in DOMAIN habits : habits[i].user_id = u } },
     completions |-> { r \in completions :
                         r.habit_id \in DOMAIN habits /\ habits[r.habit_id].user_id = u },
     perfect_days_dates |-> perfect_days_dates[u],
     perfect_days_count |-> perfect_days_count[u]]

(* C23: a request of one user, whether it creates, updates, deletes,
   completes or uncompletes a habit, leaves the habits, the completions, the
   streaks and the perfect-day set of every other user as they were. *)
C23_UsersAreIndependent ==
    [][ \A a \in Users : \A b \in Users \ {a} :
            (\/ CreateHabit(UsersHabitIds, {a}, UsersTargetDays)
             \/ \E h \in UsersHabitIds, td \in UpdateTargetDays, sd \in UpdateStartDates :
                    Serve(update_habit(DB, a, h, td, sd))
             \/ \E h \in UsersHabitIds :
                    Serve(delete_habit(DB, a, h))
             \/ \E h \in UsersHabitIds, ld \in UsersLocalDates, ts \in LocalTimestampInputs :
                    Serve(complete_habit(DB, server_today, a, h, ld, ts))
             \/ \E h \in UsersHabitIds, ld \in UsersLocalDates :
                    Serve(uncomplete_habit(DB, server_today, a, h, ld)))
            => state_of_user(b)' = state_of_user(b) ]_vars

(* User 1 has just completed a habit while user 2 holds a habit, a
   completion and a perfect day of their own *)
C23_Witness ==
    /\ response.op = "complete"
    /\ response.user_id = 1
    /\ state_of_user(2).habits # {}
    /\ state_of_user(2).completions # {}
    /\ perfect_days_count[2] > 0

(* C24: the completions of a habit go with it: after every step each
   completion of the ledger belongs to a habit that exists, and no
   completion of a habit that the step deleted remains. *)
C24_CompletionsGoWithTheHabit ==
    [][ /\ \A r \in completions' : r.habit_id \in DOMAIN habits'
        /\ \A h \in DOMAIN habits \ DOMAIN habits' :
             \A r \in completions' : r.habit_id # h ]_vars

(* A habit has been deleted after a request had completed it: the ledger is
   empty again *)
C24_Witness ==
    /\ response.op = "delete"
    /\ response.status = 200
    /\ \E k \in DOMAIN sessions :
         /\ sessions[k].op = "complete"
         /\ sessions[k].pc = "done"
         /\ sessions[k].status = 200
         /\ sessions[k].habit_id = response.habit_id
    /\ completions = {}

(* A history request has been answered with a history *)
HistoryCall ==
    /\ call # <<>>
    /\ call.fn = "get_habit_history"
    /\ call.returns.status = 200

(* The first and the last date of the range a history request covers *)
range_start == IF call.start_date = <<>> \/ call.end_date = <<>> THEN call.today - HistoryDays ELSE strptime(call.start_date)
range_end == IF call.start_date = <<>> \/ call.end_date = <<>> THEN call.today ELSE strptime(call.end_date)

(* The status the history gives to date d *)
statuses_of(d) ==
    { call.returns.history[i].status :
        i \in { j \in DOMAIN call.returns.history :
                  call.returns.history[j].date = isoformat(d) } }

(* C25: the history gives every date of the range exactly one status, which
   is completed, missed or not_logged; a date with a completion in the ledger
   is completed; and no date from today onwards is missed. *)
C25_OneStatusPerDate ==
    HistoryCall =>
        /\ Len(call.returns.history) = Max(range_end - range_start + 1, 0)
        /\ \A d \in range_start..range_end :
             /\ Cardinality({ i \in DOMAIN call.returns.history :
                                call.returns.history[i].date = isoformat(d) }) = 1
             /\ statuses_of(d) \subseteq {"completed", "missed", "not_logged"}
             /\ d \in call.completion_dates => statuses_of(d) = {"completed"}
             /\ d >= call.today => "missed" \notin statuses_of(d)

(* A history that holds a completed date, a missed date and a date of the
   future *)
C25_Witness ==
    /\ HistoryCall
    /\ \E d \in range_start..range_end :
         d \in call.completion_dates /\ statuses_of(d) = {"completed"}
    /\ \E d \in range_start..range_end :
         d < call.today /\ statuses_of(d) = {"missed"}
    /\ \E d \in range_start..range_end :
         d > call.today /\ statuses_of(d) = {"not_logged"}

(* C29: the history reports a date before today that has no completion as
   missed only if the habit was due on that date, by its start date and its
   schedule; a past date on which it was not due is not_logged. *)
C29_MissedOnlyWhenDue ==
    HistoryCall =>
        \A d \in range_start..range_end :
            (d < call.today /\ d \notin call.completion_dates) =>
                statuses_of(d) =
                    IF is_habit_due_on_date(call.habit[1], d)
                    THEN {"missed"}
                    ELSE {"not_logged"}

(* get_next_milestone has returned *)
MilestoneCall == call.fn = "get_next_milestone"

(* C26: for a count c of perfect days the milestone report has
   next_milestone = 50 * (floor(c / 50) + 1), days_remaining =
   next_milestone - c between 1 and 50, current_count = c and
   progress_percentage = 100 * c / next_milestone; c = 0 gives 50, 0% and 50,
   c = 50 gives 100 and 50, c = 150 gives 200 and 50. *)
C26_NextMilestone ==
    MilestoneCall =>
        LET c == call.user.perfect_days_count
            report == call.returns[1]
        IN  /\ report.next_milestone = 50 * ((c \div 50) + 1)
            /\ report.next_milestone > c
            /\ report.days_remaining = report.next_milestone - c
            /\ report.days_remaining \in 1..50
            /\ report.current_count = c
            /\ report.progress_percentage[1] * report.next_milestone =
                   100 * c * report.progress_percentage[2]
            /\ c = 0 => /\ report.next_milestone = 50
                        /\ report.progress_percentage[1] = 0
                        /\ report.days_remaining = 50
            /\ c = 50 => report.next_milestone = 100 /\ report.days_remaining = 50
            /\ c = 150 => report.next_milestone = 200 /\ report.days_remaining = 50

(* The report of a user beyond the third tier, half-way to the next *)
C26_Witness ==
    /\ MilestoneCall
    /\ call.user.perfect_days_count = 175
    /\ call.returns[1].next_milestone = 200
    /\ call.returns[1].days_remaining = 25

(* C27: a step that commits a complete or an uncomplete request of habit h
   carrying date d stores the currentStreak that the streak calculation
   gives with today = d, from the streak stored before and the ledger after
   the request. *)
C27_StreakAsOfRequestDate ==
    [][ (/\ completions' # completions
         /\ response'.op \in {"complete", "uncomplete"}
         /\ response'.status = 200)
        => habits'[response'.habit_id].current_streak =
               calculate_current_streak(habits[response'.habit_id], completions',
                                        response'.date) ]_vars

(* C28: when two requests that complete two different habits of one user
   for the same date have both committed, and these two habits are the ones
   due on that date, the date is in the perfect-day set of the user. *)
C28_PerfectDayNotLost ==
    \A j \in DOMAIN sessions, k \in DOMAIN sessions :
        (/\ sessions[j].op = "complete" /\ sessions[k].op = "complete"
         /\ sessions[j].pc = "done" /\ sessions[k].pc = "done"
         /\ sessions[j].status = 200 /\ sessions[k].status = 200
         /\ sessions[j].user_id = sessions[k].user_id
         /\ sessions[j].today = sessions[k].today
         /\ sessions[j].habit_id # sessions[k].habit_id
         /\ due_habits_on(habits, sessions[j].user_id, sessions[j].today)
              = {sessions[j].habit_id, sessions[k].habit_id})
        => isoformat(sessions[j].today)
             \in perfect_days_of(perfect_days_dates, sessions[j].user_id)

(* The loop has inspected the dates today - 1, today - 2, ... in this order,
   none of them before the start date, and none but the last was due *)
ScanInOrder ==
    /\ \A i \in DOMAIN call.inspected :
         /\ call.inspected[i] = call.current_date - i
         /\ call.inspected[i] >= call.habit.start_date
    /\ \A i \in 1..(Len(call.inspected) - 1) :
         ~ is_habit_due_on_date(call.habit, call.inspected[i])

(* The loop is over: it stopped on a due date, or no date from the start
   date to yesterday was due and it inspected them all *)
ScanComplete ==
    call.pc \in {"left", "done"} =>
        \/ /\ call.inspected # <<>>
           /\ is_habit_due_on_date(call.habit, call.inspected[Len(call.inspected)])
        \/ /\ Len(call.inspected) = Max(call.current_date - call.habit.start_date, 0)
           /\ \A i \in DOMAIN call.inspected :
                ~ is_habit_due_on_date(call.habit, call.inspected[i])
           /\ call.base_streak = <<0>>

(* C30: the backward scan of the streak calculation terminates; it starts at
   today - 1, visits each date at most once, stops at the first due date or
   when it passes the start date, and inspects no date before the start
   date; when the habit starts after today it inspects nothing and the base
   streak is 0. *)
C30_ScanTerminates ==
    /\ [](/\ ScanInOrder
          /\ ScanComplete
          /\ call.habit.start_date > call.current_date => call.inspected = <<>>
          /\ call.pc = "done" =>
               /\ call.base_streak =
                    <<base_streak_from(call.habit, call.rows, call.current_date - 1)>>
               /\ call.returns =
                    <<calculate_current_streak(call.habit, call.rows, call.current_date)>>)
    /\ <>(call.pc = "done")

(* A scan that went back over two days without the habit and stopped on the
   third, which was completed *)
C30_Witness ==
    /\ call.pc = "done"
    /\ Len(call.inspected) = 3
    /\ is_habit_due_on_date(call.habit, call.inspected[3])
    /\ call.base_streak = <<call.habit.current_streak>>

(* C31: on every database the application reaches, a complete request that
   succeeds, followed on the same day by the uncomplete and then the
   complete request of the same habit, stores the currentStreak that the
   first complete request stored. *)
C31_RetickKeepsStreak ==
    \A u \in Users, h \in DOMAIN habits :
        LET first == complete_habit(DB, server_today, u, h, <<>>, "")
            unticked == uncomplete_habit(first.db, server_today, u, h, <<>>)
            reticked == complete_habit(unticked.db, server_today, u, h, <<>>, "")
        IN  first.out.status = 200
            => /\ unticked.out.status = 200
               /\ reticked.out.status = 200
               /\ reticked.db.habits[h].current_streak
                    = first.db.habits[h].current_streak

(* The dates from the start date of habit h to today on which it was due and
   has a completion in the ledger *)
completed_due_dates(h) ==
    { d \in ledger_dates(completions, h) :
        /\ d >= habits[h].start_date
        /\ d <= server_today
        /\ is_habit_due_on_date(habits[h], d) }

(* C32: the currentStreak of a habit never exceeds the number of its
   completions on due dates from its start date to today. *)
C32_StreakWithinLedger ==
    \A h \in DOMAIN habits :
        habits[h].current_streak <= Cardinality(completed_due_dates(h))

(* C33: for every schedule, every start date and every date d,
   Habit.is_due_today(d) and is_habit_due_on_date(habit, d) return the same
   boolean, before the start date as well as after it. *)
C33_EvaluatorsAgree ==
    /\ call.fn = "is_due_today" =>
         call.returns = <<is_habit_due_on_date(call.habit, call.check_date)>>
    /\ call.fn = "is_habit_due_on_date" =>
         call.returns = <<is_due_today(call.habit, call.check_date, server_today)>>

(* Habit.is_due_today has answered for a day list on one of its days, on a
   date that is not the server's *)
C33_Witness ==
    /\ call.fn = "is_due_today"
    /\ call.habit.target_days = <<"saturday", "thursday">>
    /\ call.check_date = 2
    /\ call.check_date # server_today
    /\ call.habit.start_date = 0
    /\ call.returns = <<TRUE>>

====
